---- MODULE Spec2Model ----
(***************************************************************************)
(* Model of the bet tracking cog (cogs/bets.py) with the parts of          *)
(* parsing.py, espn.py and storage.py it calls: slip intake (on_message),  *)
(* the removebet command, and the two polling loops update_scores and      *)
(* update_props with the settlement pass at the end of update_props.       *)
(*                                                                         *)
(* The handlers are coroutines on one event loop: a step of the model is   *)
(* the code that runs between two awaits that can suspend, so actions of   *)
(* different handlers interleave exactly at the awaits.                    *)
(*                                                                         *)
(* The bet dictionaries are never written after they are created; only the *)
(* leg dictionaries are.  Leg dictionaries live in the heap `legs` and a   *)
(* bet refers to them by index, so that two bets built from the same       *)
(* parsed slip (on_message stores the slip twice, under the identifiers of *)
(* two posted messages) share their legs as they do in the program.        *)
(***************************************************************************)
EXTENDS Integers, Sequences, FiniteSets, TLC

\* ---------------------------------------------------------------- bounds
MaxIntakes == 1      \* slip messages handled by on_message
MaxEvents  == 2      \* events in one scoreboard response
MaxCommands == 3     \* addbet commands in the storage specification
MaxLines == 4        \* lines of a transcript handed to the parser

\* ------------------------------------------------- limits of the parser
MaxChromeWords == 3
MaxTargetText == 80

\* ------------------------------------------------------- Python's None
None    == "None"    \* an absent string (league, game_id, side)
NoValue == 0 - 1     \* an absent number (line, current_value)
NoMsg   == 0         \* bet["message"] is None

\* ------------------------------------------------------------ espn.py
\* Leagues with a scoreboard endpoint.
ESPN_SCOREBOARD == {"NFL", "NBA", "MLB", "NHL", "SOCCER", "UFC"}

\* The minimum combined match score of find_game_id_for_teams.
MinMatchScore == 70

\* Team names on the slips and on the scoreboards, and the similarity
\* rapidfuzz gives two names (process.extractOne's default scorer): equal
\* names score 100, "Bx" is a near match of "B" and "Ax" of "A" (teams of
\* one city, as the Lakers and the Chargers), anything else is far.
Sim(a, b) ==
    IF a = b THEN 100
    ELSE IF {a, b} \in { {"B", "Bx"}, {"A", "Ax"} } THEN 80
    ELSE 40

Max2(x, y) == IF x >= y THEN x ELSE y
Min2(x, y) == IF x <= y THEN x ELSE y

\* process.extractOne(t, names)[1] for the two competitor names of an event.
ExtractOneScore(t, names) == Max2(Sim(t, names[1]), Sim(t, names[2]))

\* The events a scoreboard can hold.  An event has an identifier, two
\* competitors, a status description (lower-cased) and the value
\* find_player_stat_for_leg finds in it for the slip's player.  g1 is the
\* game of the slips, being played (with no stat yet, or 180) or final; g2
\* is a game of a team with a similar name that has not started.
EventNames(id) ==
    IF id = "g1" THEN <<"A", "B">> ELSE <<"A", "Bx">>

StatValues == {NoValue, 180, 200, 220}
Event(id, status, value) ==
    [id |-> id, names |-> EventNames(id), status |-> status, value |-> value]
Events ==
    { Event("g1", "final", v) : v \in StatValues }
    \cup { Event("g1", "in progress", NoValue), Event("g1", "in progress", 180) }
    \cup { Event("g2", "scheduled", NoValue) }

\* What the awaited fetch_scores(league) can produce for a configured
\* league: an HTTP failure (raise_for_status / timeout) or the events of the
\* scoreboard, each identifier at most once.
FetchError == [error |-> TRUE, events |-> <<>>]
Scoreboard(evs) == [error |-> FALSE, events |-> evs]
EventLists ==
    { s \in UNION { [1..k -> Events] : k \in 0..MaxEvents } :
        \A i, j \in 1..Len(s) : i # j => s[i].id # s[j].id }
Scoreboards == { Scoreboard(s) : s \in EventLists }
Responses == { FetchError } \cup Scoreboards

\* Variant in which every league, None included, is fetched over the network.
has_endpoint_any(league) == TRUE

\* url = ESPN_SCOREBOARD.get(league): whether fetch_scores has an endpoint.
has_endpoint(league) == league \in ESPN_SCOREBOARD

\* fetch_scores for a league without an endpoint returns {} at once.
fetch_scores_unconfigured == Scoreboard(<<>>)

\* The combined score of one event for a pair of team names.
EventScore(teams, event) ==
    Min2(ExtractOneScore(teams[1], event.names),
         ExtractOneScore(teams[2], event.names))

\* Variant in which an equal score replaces the best so far.
RECURSIVE BestEvent_last(_, _, _, _, _)
BestEvent_last(teams, events, k, best_id, best_score) ==
    IF k > Len(events) THEN [id |-> best_id, score |-> best_score]
    ELSE LET score == EventScore(teams, events[k])
         IN  IF score >= best_score
             THEN BestEvent_last(teams, events, k + 1, events[k].id, score)
             ELSE BestEvent_last(teams, events, k + 1, best_id, best_score)

\* The loop of find_game_id_for_teams over events[k..]: a strictly better
\* score replaces the best so far.
RECURSIVE BestEvent(_, _, _, _, _)
BestEvent(teams, events, k, best_id, best_score) ==
    IF k > Len(events) THEN [id |-> best_id, score |-> best_score]
    ELSE LET score == EventScore(teams, events[k])
         IN  IF score > best_score
             THEN BestEvent(teams, events, k + 1, events[k].id, score)
             ELSE BestEvent(teams, events, k + 1, best_id, best_score)

find_game_id_for_teams(teams, events) ==
    IF Len(teams) < 2 THEN None
    ELSE LET best == BestEvent(teams, events, 1, None, 0)
         IN  IF best.score >= MinMatchScore THEN best.id ELSE None

\* next((e for e in events if e["id"] == gid), None): 0 when there is none.
RECURSIVE EventIndex(_, _, _)
EventIndex(events, gid, k) ==
    IF k > Len(events) THEN 0
    ELSE IF events[k].id = gid THEN k
    ELSE EventIndex(events, gid, k + 1)

\* find_player_stat_for_leg: only three leagues have a stat extractor.
find_player_stat_for_leg(league, event) ==
    IF league \in {"NFL", "SOCCER", "UFC"} THEN event.value ELSE NoValue

\* ---------------------------------------------------------- parsing.py
\* A transcript is given by its leg blocks, each block by what the parser's
\* patterns find in it.
Block(type, league, side, line, teams) ==
    [type |-> type, league |-> league, side |-> side, line |-> line,
     teams |-> teams]

PropOver  == Block("prop", "NFL", "over", 200, <<"A", "B">>)
PropUnder == Block("prop", "NFL", "under", 200, <<"A", "B">>)
Spread    == Block("spread", "NFL", None, 3, <<"A">>)
Unknown   == Block("unknown", None, None, NoValue, <<>>)

Transcripts ==
    { <<>>, <<Unknown>>, <<PropOver>>,
      <<PropOver, PropUnder>>, <<PropOver, Spread>> }

\* The Leg that classify_line_block builds, with the game_teams parse_slip
\* adds for the team-sport leagues; a new Leg is pending and has neither a
\* game_id nor a current value.
classify_line_block(b) ==
    [type          |-> b.type,
     league        |-> b.league,
     side          |-> b.side,
     line          |-> b.line,
     game_teams    |-> IF b.league \in {"NFL", "NBA", "MLB", "NHL", "SOCCER"}
                       THEN b.teams ELSE <<>>,
     game_id       |-> None,
     current_value |-> NoValue,
     result        |-> "pending"]

\* max(league_vote, key=league_vote.get): the league most legs have, the
\* one seen first among equals; None when no leg has a league.
Votes(ls, lg) == Cardinality({ i \in 1..Len(ls) : ls[i].league = lg })
overall_league(ls) ==
    IF \A i \in 1..Len(ls) : ls[i].league = None THEN None
    ELSE LET first == CHOOSE i \in 1..Len(ls) :
                 /\ ls[i].league # None
                 /\ \A j \in 1..Len(ls) : ls[j].league # None =>
                        \/ Votes(ls, ls[j].league) < Votes(ls, ls[i].league)
                        \/ /\ Votes(ls, ls[j].league) = Votes(ls, ls[i].league)
                           /\ \A h \in 1..(i - 1) : ls[h].league # ls[j].league
         IN  ls[first].league

bet_type_of(n) == IF n > 1 THEN "parlay" ELSE "single"

parse_slip(t) ==
    LET ls == [i \in 1..Len(t) |-> classify_line_block(t[i])]
    IN  [bet_type |-> bet_type_of(Len(ls)),
         league   |-> overall_league(ls),
         legs     |-> ls]

\* ---- transcripts as text
\* A text is a sequence of tokens; adjacent tokens of a line are one space
\* apart and the token NL ends a line.  The lines below are those of a small
\* slip: a player and a stat, an over with its line, American odds, a stake
\* and a payout with their amounts, a header that carries a bet id, a leg
\* marker, a parlay header, a team with its spread, a moneyline keyword, a
\* total phrase and a long line of terms that no pattern matches.  Floats
\* are kept in tenths.
NL == "\n"
PlayerStat == "Drake Maye - Passing Yards"
BetId == "Bet ID: 7"
Terms ==
    "All selections must win for this ticket to be graded as a winning ticket by the house!"
LineKinds ==
    { <<PlayerStat>>, <<"Over", "225.5">>, <<"-115">>, <<"Stake", "$50">>,
      <<PlayerStat, "Over", "225.5">>, <<"Payout", "$95">>, <<BetId>>,
      <<"Leg", "1">>, <<"Parlay">>, <<"Cowboys", "-3.5">>, <<"Over", "44.5">>,
      <<"Moneyline">>, <<"Total", "Points">>, <<Terms>> }
Digits == {"1"}
Numbers == {"225.5", "1", "44.5"}
Money == {"$50", "$95"}
Signed == {"-115", "-3.5"}
Words ==
    {"Stake", "Payout", "Over", "Leg", "Parlay", "Cowboys", "Moneyline",
     "Total", "Points"}
\* The tokens the last substitution of boost_leg_segmentation matches, and
\* those that hold a keyword of slip chrome.
Market == {"Over", "Total", "Moneyline"}
ChromeWords == {"Payout", "Parlay"}

\* len(tok), and the number of words of a token.
chars(tok) ==
    CASE tok = PlayerStat -> 26
      [] tok = BetId -> 9
      [] tok = Terms -> 86
      [] tok \in {"1"} -> 1
      [] tok \in {"$50", "$95", "Leg"} -> 3
      [] tok \in {"Over", "-115", "-3.5", "44.5"} -> 4
      [] tok \in {"225.5", "Stake", "Total"} -> 5
      [] tok \in {"Payout", "Parlay", "Points"} -> 6
      [] tok = "Cowboys" -> 7
      [] tok = "Moneyline" -> 9
      [] tok = NL -> 1
words(tok) ==
    CASE tok = NL -> 0
      [] tok = PlayerStat -> 5
      [] tok = BetId -> 3
      [] tok = Terms -> 17
      [] OTHER -> 1

\* float(m.group(...)) of an amount or a line, in tenths.
float_of(tok) ==
    CASE tok = "225.5" -> 2255
      [] tok = "1"     -> 10
      [] tok = "$50"   -> 500
      [] tok = "$95"   -> 950
      [] tok = "-115"  -> 0 - 1150
      [] tok = "44.5"  -> 445
      [] tok = "-3.5"  -> 0 - 35

\* "\n".join(lines)
RECURSIVE join(_)
join(lines) ==
    IF lines = <<>> THEN <<>>
    ELSE IF Len(lines) = 1 THEN lines[1]
    ELSE lines[1] \o <<NL>> \o join(Tail(lines))

Texts == UNION { { join(f) : f \in [1..n -> LineKinds] } : n \in 0..MaxLines }

\* text.splitlines()
RECURSIVE splitlines(_)
splitlines(t) ==
    IF t = <<>> THEN <<>>
    ELSE LET k == CHOOSE j \in 1..(Len(t) + 1) :
                      /\ j = Len(t) + 1 \/ t[j] = NL
                      /\ \A h \in 1..(j - 1) : t[h] # NL
         IN  <<SubSeq(t, 1, k - 1)>> \o splitlines(SubSeq(t, k + 1, Len(t)))

\* Where \s* ends when it starts at token i of t.
skip(t, i) ==
    CHOOSE j \in i..(Len(t) + 1) :
        /\ j = Len(t) + 1 \/ t[j] # NL
        /\ \A h \in i..(j - 1) : t[h] = NL

\* The first of a set of positions, 0 when there is none: re.search.
search(S) == IF S = {} THEN 0 ELSE CHOOSE i \in S : \A j \in S : i <= j

\* The position of the amount that follows the keyword at i, 0 when none
\* follows: keyword, \s*, an optional $, digits.
amount_after(t, i) ==
    LET j == skip(t, i + 1)
    IN  IF j <= Len(t) /\ t[j] \in Money \cup Numbers THEN j ELSE 0

\* extract_odds: RE_AMERICAN_ODDS, a sign and two to four digits.
extract_odds(t) ==
    LET m == search({ i \in 1..Len(t) : t[i] = "-115" })
    IN  IF m # 0 THEN 0 - 115 ELSE NoValue

\* extract_stake: RE_STAKE, and RE_MONEY when RE_STAKE finds nothing.
extract_stake(t) ==
    LET m  == search({ i \in 1..Len(t) :
                         t[i] = "Stake" /\ amount_after(t, i) # 0 })
        m2 == search({ i \in 1..Len(t) : t[i] \in Money })
    IN  IF m # 0 THEN float_of(t[amount_after(t, m)])
        ELSE IF m2 # 0 THEN float_of(t[m2])
        ELSE NoValue

\* extract_payout: RE_PAYOUT.
extract_payout(t) ==
    LET m == search({ i \in 1..Len(t) :
                        t[i] = "Payout" /\ amount_after(t, i) # 0 })
    IN  IF m # 0 THEN float_of(t[amount_after(t, m)]) ELSE NoValue

\* RE_LEG_START on a line: of the lines here only one that begins with
\* over matches.
leg_start(ln) == ln[1] = "Over"

\* len(low.split()) of a block.
RECURSIVE word_count(_)
word_count(b) ==
    IF b = <<>> THEN 0
    ELSE word_count(Tail(b)) + words(Head(b))

\* The loop of split_into_leg_blocks: a line that matches RE_LEG_START
\* closes the block that is open, if one is.
RECURSIVE leg_blocks(_, _)
leg_blocks(lines, cur) ==
    IF lines = <<>>
    THEN IF cur = <<>> THEN <<>> ELSE <<join(cur)>>
    ELSE IF leg_start(Head(lines)) /\ cur # <<>>
    THEN <<join(cur)>> \o leg_blocks(Tail(lines), <<Head(lines)>>)
    ELSE leg_blocks(Tail(lines), Append(cur, Head(lines)))

\* A block of at most three words with a keyword of slip chrome in it.
chrome(b) ==
    word_count(b) <= MaxChromeWords
    /\ \E i \in 1..Len(b) : b[i] \in ChromeWords

IsLine(ln) == ln # <<>>
NotChrome(b) == ~chrome(b)

split_into_leg_blocks(t) ==
    SelectSeq(leg_blocks(SelectSeq(splitlines(t), IsLine), <<>>), NotChrome)

\* RE_OU in a block: over, \s*, a number.  The position of the number.
re_ou(b) ==
    LET m == search({ i \in 1..Len(b) :
                        /\ b[i] = "Over"
                        /\ skip(b, i + 1) <= Len(b)
                        /\ b[skip(b, i + 1)] \in Numbers })
    IN  IF m # 0 THEN skip(b, m + 1) ELSE 0

\* RE_PLAYER_STAT in a block: two or more capitalised words, a dash or a
\* colon, and the stat.  The player-stat line and the bet id header both
\* match, and the name takes in the words that stand before it with only
\* white space between.
RECURSIVE name_prefix(_, _)
name_prefix(b, i) ==
    LET P == { j \in 1..(i - 1) : b[j] # NL }
        j == IF P = {} THEN 0 ELSE CHOOSE x \in P : \A y \in P : y <= x
    IN  IF j # 0 /\ b[j] \in Words
        THEN Append(name_prefix(b, j), b[j])
        ELSE <<>>

re_player_stat(b) == search({ i \in 1..Len(b) : b[i] \in {PlayerStat, BetId} })

player_of(b) ==
    LET m == re_player_stat(b)
    IN  IF m = 0 THEN <<>>
        ELSE Append(name_prefix(b, m),
                    IF b[m] = PlayerStat THEN "Drake Maye" ELSE "Bet ID")

\* normalize_stat of the stat RE_PLAYER_STAT finds: the first entry of
\* PROP_STATS that holds it or is held by it.
stat_of(b) == IF re_player_stat(b) = 0 THEN None ELSE "passing yards"

\* RE_TEAM_SPREAD in a block: a word, \s*, a signed number.  The position
\* of the word.
re_team_spread(b) ==
    search({ i \in 1..Len(b) :
               /\ b[i] \in Words
               /\ skip(b, i + 1) <= Len(b)
               /\ b[skip(b, i + 1)] \in Signed })

\* Group 1 of RE_TEAM_SPREAD: the words of the line that end at token i.
RECURSIVE line_words(_, _)
line_words(b, i) ==
    IF i >= 1 /\ b[i] \in Words
    THEN Append(line_words(b, i - 1), b[i])
    ELSE <<>>

\* team_guess of the spread branch; a side word is no team.
team_of(b) ==
    LET sp == re_team_spread(b)
    IN  IF sp = 0 \/ line_words(b, sp) \in {<<"Over">>} THEN <<>>
        ELSE line_words(b, sp)

\* RE_TOTAL_KEY: total and a category, one space apart.
re_total_key(b) ==
    \E i \in 1..(Len(b) - 1) : b[i] = "Total" /\ b[i + 1] = "Points"

\* RE_WINNER_KEY
re_winner_key(b) == \E i \in 1..Len(b) : b[i] = "Moneyline"

\* len(block.strip()[:80]): the characters of the block that the
\* target_text of an unknown leg keeps.
RECURSIVE block_chars(_)
block_chars(b) ==
    IF b = <<>> THEN 0
    ELSE chars(Head(b)) + block_chars(Tail(b))
         + (IF Len(b) > 1 /\ b[1] # NL /\ b[2] # NL THEN 1 ELSE 0)
target_chars(b) == Min2(block_chars(b), MaxTargetText)

\* Variant that looks for a spread before it looks for a total.
read_block_spread_first(b, catalog) ==
    LET pm == re_player_stat(b)
        ou == re_ou(b)
        sp == re_team_spread(b)
    IN  IF pm # 0
        THEN Block("prop",
                   IF catalog /\ b[pm] = PlayerStat THEN "NFL" ELSE None,
                   IF ou # 0 THEN "over" ELSE None,
                   IF ou # 0 THEN float_of(b[ou]) ELSE NoValue,
                   <<>>)
        ELSE IF sp # 0
        THEN Block("spread", None, None, float_of(b[skip(b, sp + 1)]), <<>>)
        ELSE IF ou # 0
        THEN Block("total", None, "over", float_of(b[ou]), <<>>)
        ELSE IF re_total_key(b)
        THEN Block("total", None, None, NoValue, <<>>)
        ELSE IF re_winner_key(b)
        THEN Block("moneyline", None, None, NoValue, <<>>)
        ELSE Unknown

\* What classify_line_block finds in a block of text, by its priority:
\* player prop, total, spread, moneyline, unknown.  The league comes from
\* the player catalog, which knows the player or is empty.
read_block(b, catalog) ==
    LET pm == re_player_stat(b)
        ou == re_ou(b)
        sp == re_team_spread(b)
    IN  IF pm # 0
        THEN Block("prop",
                   IF catalog /\ b[pm] = PlayerStat THEN "NFL" ELSE None,
                   IF ou # 0 THEN "over" ELSE None,
                   IF ou # 0 THEN float_of(b[ou]) ELSE NoValue,
                   <<>>)
        ELSE IF ou # 0
        THEN Block("total", None, "over", float_of(b[ou]), <<>>)
        ELSE IF re_total_key(b)
        THEN Block("total", None, None, NoValue, <<>>)
        ELSE IF sp # 0
        THEN Block("spread", None, None, float_of(b[skip(b, sp + 1)]), <<>>)
        ELSE IF re_winner_key(b)
        THEN Block("moneyline", None, None, NoValue, <<>>)
        ELSE Unknown

\* parse_slip on a text: the slip's odds, stake and payout, and one leg for
\* each block.
parse_slip_text(t, catalog) ==
    LET blocks == split_into_leg_blocks(t)
        parsed == parse_slip([i \in 1..Len(blocks) |->
                                 read_block(blocks[i], catalog)])
    IN  [bet_type |-> parsed.bet_type,
         league   |-> parsed.league,
         odds     |-> extract_odds(t),
         stake    |-> extract_stake(t),
         payout   |-> extract_payout(t),
         legs     |-> [i \in 1..Len(blocks) |->
                         [type   |-> parsed.legs[i].type,
                          league |-> parsed.legs[i].league,
                          side   |-> parsed.legs[i].side,
                          line   |-> parsed.legs[i].line,
                          player |-> player_of(blocks[i]),
                          stat   |-> stat_of(blocks[i]),
                          team   |-> IF parsed.legs[i].type = "spread"
                                     THEN team_of(blocks[i]) ELSE <<>>,
                          target_chars |->
                              IF parsed.legs[i].type = "unknown"
                              THEN target_chars(blocks[i]) ELSE NoValue]]]

\* --------------------------------------------------- format_router.py
\* normalize_headers_footers: the lines that hold a header pattern are
\* dropped.
NotHeader(ln) == \A i \in 1..Len(ln) : ln[i] # BetId
normalize_headers_footers(t) == join(SelectSeq(splitlines(t), NotHeader))

\* re.sub(r"(leg\s+\d+)", r"\n\1\n"): the match is kept between newlines.
RECURSIVE sub_leg(_, _)
sub_leg(t, i) ==
    IF i > Len(t) THEN <<>>
    ELSE LET j == skip(t, i + 1)
         IN  IF t[i] = "Leg" /\ j <= Len(t) /\ t[j] \in Digits
             THEN <<NL>> \o SubSeq(t, i, j) \o <<NL>> \o sub_leg(t, j + 1)
             ELSE <<t[i]>> \o sub_leg(t, i + 1)

\* re.sub(r"(wager|stake|risk)\s*[:$]?\s*[0-9]+(?:\.[0-9]{1,2})?",
\* r"\n\1\n"), and the same for (to win|payout|return): the match runs from
\* the keyword to the end of the amount and only the keyword, group 1, is
\* written back.
RECURSIVE sub_amount(_, _, _)
sub_amount(t, kw, i) ==
    IF i > Len(t) THEN <<>>
    ELSE IF t[i] = kw /\ amount_after(t, i) # 0
    THEN <<NL, kw, NL>> \o sub_amount(t, kw, amount_after(t, i) + 1)
    ELSE <<t[i]>> \o sub_amount(t, kw, i + 1)

\* re.sub(r"(over|under|total|spread|moneyline|ml)\b", r"\n\1\n")
RECURSIVE sub_market(_, _)
sub_market(t, i) ==
    IF i > Len(t) THEN <<>>
    ELSE (IF t[i] \in Market THEN <<NL, t[i], NL>> ELSE <<t[i]>>)
         \o sub_market(t, i + 1)

boost_leg_segmentation(t) ==
    sub_market(sub_amount(sub_amount(sub_leg(t, 1), "Stake", 1),
                          "Payout", 1), 1)

\* route_text, by config.router_enable_normalization; the style it detects
\* has no part in the text it returns.
route_text(t, normalize) ==
    boost_leg_segmentation(IF normalize THEN normalize_headers_footers(t)
                           ELSE t)

\* --------------------------------------------------------- cogs/bets.py
\* CONFIDENCE_THRESHOLD comes from the configuration; the values here are
\* percentages.
Thresholds == {35, 70}

confidence_of(parsed) ==
    IF \E i \in 1..Len(parsed.legs) : parsed.legs[i].type # "unknown"
    THEN 90 ELSE 50


VARIABLES
    threshold,   \* CONFIDENCE_THRESHOLD
    tracked,     \* self.tracked: the ordered dict, a sequence of [id, bet]
    legs,        \* the leg dictionaries, by object
    store,       \* tracked_bets.json
    posted,      \* number of messages the bot has posted (their ids)
    intakes,     \* number of slip messages received
    im,          \* on_message: where the running handler is suspended
    sc,          \* update_scores: where the running tick is suspended
    pr,          \* update_props: where the running tick is suspended
    finals,      \* per posted message, the final renders made of it
    last,        \* the latest step of on_message or update_props
    text,        \* a transcript handed to route_text and to parse_slip
    routed,      \* what route_text returned for it
    slip,        \* what parse_slip returned for it
    corr,        \* a leg, the scoreboard it was last correlated with, and
                 \* what find_game_id_for_teams returned for it
    scan,        \* an image, what the engine gave for each of its
                 \* variants, and what ocr_image_multi returned for it
    cat          \* TEAM_MAP, PLAYER_MAP, _last_catalog_refresh, the clock
                 \* and where the running refresh_catalogs is suspended

vars == <<threshold, tracked, legs, store, posted, intakes, im, sc, pr,
          finals, last, text, routed, slip, corr,
          scan, cat>>

\* The tracking engine itself holds no transcript.
textvars == <<text, routed, slip>>

\* No leg has been correlated on its own.
NoCorr ==
    [cycles |-> 0, league |-> None, bet_league |-> None, game_teams |-> <<>>,
     game_id |-> None, result |-> "pending", events |-> <<>>, had |-> None,
     found |-> None]

\* No image has been read on its own.
NoScan ==
    [done |-> FALSE, decodable |-> TRUE, engine |-> <<>>, candidates |-> <<>>,
     raised |-> FALSE, text |-> <<>>]

\* The catalogs as the module defines them, before any refresh.
NoCat ==
    [TEAM_MAP |-> <<>>, PLAYER_MAP |-> <<>>, last |-> 0, clock |-> 0,
     pc |-> "idle", now |-> 0, pending |-> {}, failed |-> {}]

\* What the specifications of single functions hold, and its value in the
\* specifications that do not use it.
libvars == <<corr, scan, cat>>
LibIdle == corr = NoCorr /\ scan = NoScan /\ cat = NoCat

\* What the tracking engine leaves alone.
purevars == <<textvars, libvars>>
NotRouted == [done |-> FALSE, normalize |-> FALSE, text |-> <<>>]
NotParsed == [done |-> FALSE]

\* ---- dict operations on self.tracked
Keys(m) == { m[i].id : i \in 1..Len(m) }
KeyIndex(m, key) == CHOOSE i \in 1..Len(m) : m[i].id = key

\* self.tracked[key] = bet
DictSet(m, key, bet) ==
    IF key \in Keys(m)
    THEN [m EXCEPT ![KeyIndex(m, key)] = [id |-> key, bet |-> bet]]
    ELSE Append(m, [id |-> key, bet |-> bet])

\* self.tracked.pop(key, None)
DictPop(m, key) ==
    IF key \in Keys(m)
    THEN LET k == KeyIndex(m, key)
         IN  [i \in 1..(Len(m) - 1) |-> IF i < k THEN m[i] ELSE m[i + 1]]
    ELSE m

\* ---- storage.py
\* json.dump of the mapping: a bet that holds a discord Message cannot be
\* serialised, the error is logged and the file is left as it was (the dump
\* goes to a temporary file that is only renamed after it succeeded).
Serialised(m, lg) ==
    [i \in 1..Len(m) |->
        [id   |-> m[i].id,
         bet  |-> m[i].bet,
         legs |-> [k \in 1..Len(m[i].bet.legs) |-> lg[m[i].bet.legs[k]]]]]

\* tracked_bets.json: missing, or a file that cannot be read (defect
\* "unreadable"), that does not hold JSON (defect "corrupt"), or that holds
\* a dumped mapping.
MissingFile == [exists |-> FALSE, defect |-> None, data |-> <<>>]
JsonFile(data) == [exists |-> TRUE, defect |-> None, data |-> data]
DefectFile(defect) == [exists |-> TRUE, defect |-> defect, data |-> <<>>]

\* Variant in which an error of the dump reaches the caller.
save_tracked_bets_raising(m, lg, st, io_ok) ==
    IF (\E i \in 1..Len(m) : m[i].bet.message # NoMsg) \/ ~io_ok
    THEN [raised |-> TRUE, store |-> st]
    ELSE [raised |-> FALSE, store |-> JsonFile(Serialised(m, lg))]

\* save_tracked_bets: whether it raises, and the store after it.  io_ok says
\* whether the file system lets the temporary file be written and renamed.
save_tracked_bets(m, lg, st, io_ok) ==
    IF (\E i \in 1..Len(m) : m[i].bet.message # NoMsg) \/ ~io_ok
    THEN [raised |-> FALSE, store |-> st]
    ELSE [raised |-> FALSE, store |-> JsonFile(Serialised(m, lg))]

\* save_tracked(self.tracked) as the cog calls it, on a file system that
\* works.
save_tracked(m, lg, st) == save_tracked_bets(m, lg, st, TRUE).store

\* Variant without the except clause for errors other than a missing file.
load_tracked_bets_raising(st) ==
    IF ~st.exists THEN [raised |-> FALSE, data |-> <<>>]
    ELSE IF st.defect # None THEN [raised |-> TRUE, data |-> <<>>]
    ELSE [raised |-> FALSE, data |-> st.data]

\* load_tracked_bets: whether it raises, and the mapping it returns: the
\* empty one for FileNotFoundError and for any other exception of open or
\* json.load.
load_tracked_bets(st) ==
    IF ~st.exists THEN [raised |-> FALSE, data |-> <<>>]
    ELSE IF st.defect # None THEN [raised |-> FALSE, data |-> <<>>]
    ELSE [raised |-> FALSE, data |-> st.data]

\* The leg dictionaries json.load builds for the stored bets, and the
\* mapping that refers to them.
RECURSIVE LoadedLegs(_)
LoadedLegs(data) ==
    IF data = <<>> THEN <<>>
    ELSE LoadedLegs(SubSeq(data, 1, Len(data) - 1)) \o data[Len(data)].legs

LoadedBets(data) ==
    [i \in 1..Len(data) |->
        LET off == Len(LoadedLegs(SubSeq(data, 1, i - 1)))
        IN  [id  |-> data[i].id,
             bet |-> [data[i].bet EXCEPT
                        !.legs = [k \in 1..Len(data[i].legs) |-> off + k]]]]

\* load_tracked() as Bets.__init__ calls it.
load_tracked(st) == LoadedBets(load_tracked_bets(st).data)

\* What the latest step of on_message or update_props did: the handler, what
\* it sent, edited or saved, the bets whose iteration of update_props ended
\* normally in it, and what it looked at: for on_message the confidence it
\* computed, for update_props the leg, the status and stat value found for
\* it in the scoreboard, and the identifier the correlation gives for the
\* leg on that scoreboard; for on_message also the number of leg blocks of
\* the transcript OCR returned.
NoObs == [leg |-> 0, status |-> None, value |-> NoValue, rematch |-> None,
          confidence |-> NoValue, blocks |-> NoValue]
StepObs(op, done, fx, obs) == [op |-> op, done |-> done, fx |-> fx, obs |-> obs]
Step(op, fx) == StepObs(op, {}, fx, NoObs)

Idle == [pc |-> "idle"]
NoReport == [total |-> 0, visited |-> 0, recovered |-> FALSE]
TickIdle == [pc |-> "idle", snap |-> <<>>, i |-> 1, j |-> 1,
             ok |-> {}, errs |-> {}, pend |-> None, wrote |-> FALSE,
             report |-> NoReport]

\* After cog_unload both loops are cancelled: a tick that was suspended in
\* an await gets CancelledError there, which no except clause of the tick
\* catches, and no tick starts again.
Cancelled == [TickIdle EXCEPT !.pc = "cancelled"]

\* The cog is loaded: its listener and commands are registered and its
\* loops run.
Loaded == sc.pc # "cancelled"

\* Bets.__init__ with no store on disk.
Init ==
    /\ text = <<>>
    /\ routed = NotRouted
    /\ slip = NotParsed
    /\ LibIdle
    /\ threshold \in Thresholds
    /\ store = MissingFile
    /\ tracked = load_tracked(store)
    /\ legs = LoadedLegs(load_tracked_bets(store).data)
    /\ posted = 0
    /\ intakes = 0
    /\ im = Idle
    /\ sc = TickIdle
    /\ pr = TickIdle
    /\ finals = <<>>
    /\ last = Step("init", <<>>)

\* ---- on_message
\* What ocr_image_multi gives for the attachment: an exception, or the
\* transcript it read (the empty transcript among them).  on_message passes
\* the name img_bytes, which the handler as written binds nowhere; the model
\* takes it to hold the attachment's bytes, and the NameError of the unbound
\* name is one of the exceptions OcrError stands for.
OcrError == [raised |-> TRUE, text |-> <<>>]
OcrOutcomes == { OcrError } \cup { [raised |-> FALSE, text |-> t] : t \in Transcripts }

Messages == [bot : BOOLEAN, in_channel : BOOLEAN, attachment : BOOLEAN]

\* Variant of the gate that turns no slip away.
low_confidence_off(confidence, thr) == FALSE

\* The gate of on_message: TRUE when the slip is turned away.
low_confidence(confidence, thr) == confidence < thr

\* Variant that lists the legs from the last to the first.
leg_lines_reversed(ls) ==
    [k \in 1..Len(ls) |->
        [idx |-> k, type |-> ls[Len(ls) + 1 - k].type,
         side |-> ls[Len(ls) + 1 - k].side, line |-> ls[Len(ls) + 1 - k].line]]

\* The "Legs" field of an embed: for idx, leg in enumerate(legs, start=1),
\* one numbered line that shows the leg by its type, side and line.
leg_lines(ls) ==
    [k \in 1..Len(ls) |->
        [idx |-> k, type |-> ls[k].type, side |-> ls[k].side,
         line |-> ls[k].line]]

\* The leg dictionaries of a bet, in the order of bet["legs"].
bet_legs(bet, lg) == [k \in 1..Len(bet.legs) |-> lg[bet.legs[k]]]

\* The record on_message stores for a posted message.
TrackedBet(parsed, leg_ids, message) ==
    [league   |-> parsed.league,
     bet_type |-> parsed.bet_type,
     legs     |-> leg_ids,
     message  |-> message]

\* on_message up to its first send: the early returns, OCR, parse_slip and
\* the confidence gate.
on_message(msg, ocr) ==
    /\ UNCHANGED purevars
    /\ Loaded
    /\ im.pc = "idle"
    /\ intakes < MaxIntakes
    /\ intakes' = intakes + 1
    /\ UNCHANGED <<threshold, tracked, legs, store, posted, sc, pr, finals>>
    /\ IF msg.bot \/ ~msg.in_channel \/ ~msg.attachment
       THEN /\ im' = im
            /\ last' = Step("on_message", <<>>)
       ELSE IF ocr.raised
       THEN /\ im' = im
            /\ last' = Step("on_message", <<"could_not_read">>)
       ELSE LET parsed == parse_slip(ocr.text)
                obs    == [NoObs EXCEPT !.confidence = confidence_of(parsed),
                                        !.blocks = Len(ocr.text)]
            IN  IF low_confidence(confidence_of(parsed), threshold)
                THEN /\ im' = im
                     /\ last' = StepObs("on_message", {}, <<"low_confidence">>,
                                        obs)
                ELSE /\ im' = [pc |-> "send1", parsed |-> parsed,
                                     embed |-> leg_lines(parsed.legs)]
                     /\ last' = StepObs("on_message", {}, <<>>, obs)

\* The first send returns: the slip is stored under the id of the posted
\* message and saved, and the embed is sent again.
on_message_posted(sent) ==
    /\ UNCHANGED purevars
    /\ im.pc = "send1"
    /\ UNCHANGED <<threshold, intakes, sc, pr>>
    /\ IF ~sent
       THEN /\ im' = Idle
            /\ last' = Step("on_message", <<"raised">>)
            /\ UNCHANGED <<tracked, legs, store, posted, finals>>
       ELSE LET id  == posted + 1
                ids == [k \in 1..Len(im.parsed.legs) |-> Len(legs) + k]
                bet == TrackedBet(im.parsed, ids, id)
            IN  /\ posted' = id
                /\ finals' = Append(finals, <<>>)
                /\ legs' = legs \o im.parsed.legs
                /\ tracked' = DictSet(tracked, id, bet)
                /\ store' = save_tracked(tracked', legs', store)
                /\ im' = [pc |-> "send2", parsed |-> im.parsed, legs |-> ids,
                          embed |-> im.embed]
                /\ last' = Step("on_message", <<"post", "save">>)

\* The second send returns: the same slip, with the same leg dictionaries,
\* is stored again under the id of the second message.
on_message_posted_again(sent) ==
    /\ UNCHANGED purevars
    /\ im.pc = "send2"
    /\ UNCHANGED <<threshold, intakes, legs, sc, pr>>
    /\ im' = Idle
    /\ IF ~sent
       THEN /\ last' = Step("on_message", <<"raised">>)
            /\ UNCHANGED <<tracked, store, posted, finals>>
       ELSE LET id  == posted + 1
                bet == TrackedBet(im.parsed, im.legs, id)
            IN  /\ posted' = id
                /\ finals' = Append(finals, <<>>)
                /\ tracked' = DictSet(tracked, id, bet)
                /\ store' = save_tracked(tracked', legs, store)
                /\ last' = Step("on_message", <<"post", "save">>)

\* ---- removebet
remove_bet(bet_id) ==
    /\ UNCHANGED purevars
    /\ Loaded
    /\ UNCHANGED <<threshold, legs, posted, intakes, im, sc, pr, finals, last>>
    /\ IF bet_id \in Keys(tracked)
       THEN /\ tracked' = DictPop(tracked, bet_id)
            /\ store' = save_tracked(tracked', legs, store)
       ELSE UNCHANGED <<tracked, store>>

\* ---- the polling loops
\* A tick holds the snapshot list(self.tracked.items()) it iterates, the
\* index i of the bet it is at, the bets whose iteration ended normally
\* (ok) and the bets whose iteration ended in the except clause (errs).
Tick(pc, t, i, j, ok, errs, pend) ==
    [pc |-> pc, snap |-> t.snap, i |-> i, j |-> j,
     ok |-> ok, errs |-> errs, pend |-> pend, wrote |-> FALSE,
     report |-> NoReport]

\* Whether the iteration of the bet a props tick is at has written a field
\* of a leg so far: next is where the tick t is after a step that wrote (w)
\* or did not write; a new iteration has written nothing.  (A scores tick
\* writes in one step, after its only fetch.)
Written(t, next, w) ==
    IF next.pc # "idle" /\ next.i = t.i
    THEN [next EXCEPT !.wrote = t.wrote \/ w]
    ELSE next

\* When the for loop is over the snapshot is dropped.  What is kept of the
\* tick is how many bets the snapshot had, how many of them the loop got to,
\* and whether it got to a bet after one that raised.
TickEnd(t) ==
    IF t.pc # "idle" THEN t
    ELSE [TickIdle EXCEPT !.report =
            [total     |-> Len(t.snap),
             visited   |-> Cardinality(t.ok \cup t.errs),
             recovered |-> \E e \in t.errs : \E o \in t.ok \cup t.errs : o > e]]

\* The identifiers of the bets whose iteration ended normally in the step
\* that took the tick from t to u.
Done(t, u) == { u.snap[i].id : i \in u.ok \ t.ok }

\* Variant in which an exception ends the loop over the snapshot.
next_after_except_abort(snap, i) == Len(snap) + 1

\* After the except clause of bet i the for loop goes on with the next bet.
next_after_except(snap, i) == i + 1

\* Variant in which no bet is skipped by the scores tick.
all_prop_never(bet, lg) == FALSE

\* ---- update_scores
all_prop(bet, lg) == \A k \in 1..Len(bet.legs) : lg[bet.legs[k]].type = "prop"

\* The tick runs from bet i on until it suspends in an await or ends.  A
\* bet of only prop legs is skipped.  For a league without an endpoint
\* fetch_scores returns {} without suspending: no event, so no leg is
\* correlated, and the tick goes on to the edit of the bet's message, which
\* raises when the bet has none.
RECURSIVE scores_next(_, _, _, _, _)
scores_next(t, i, ok, errs, lg) ==
    IF i > Len(t.snap) THEN Tick("idle", t, i, 1, ok, errs, None)
    ELSE LET bet == t.snap[i].bet
         IN  IF all_prop(bet, lg)
             THEN scores_next(t, i + 1, ok \cup {i}, errs, lg)
             ELSE IF has_endpoint(bet.league)
             THEN Tick("fetch", t, i, 1, ok, errs, None)
             ELSE IF bet.message = NoMsg
             THEN scores_next(t, next_after_except(t.snap, i), ok,
                              errs \cup {i}, lg)
             ELSE Tick("edit", t, i, 1, ok, errs,
                       leg_lines(bet_legs(bet, lg)))

\* The correlation loop of update_scores over the legs of one bet.
scores_game_id(leg, events) ==
    IF leg.game_id = None /\ leg.game_teams # <<>>
    THEN find_game_id_for_teams(leg.game_teams, events)
    ELSE None

correlate(lg, bet, events) ==
    [k \in 1..Len(lg) |->
        IF (\E h \in 1..Len(bet.legs) : bet.legs[h] = k)
           /\ scores_game_id(lg[k], events) # None
        THEN [lg[k] EXCEPT !.game_id = scores_game_id(lg[k], events)]
        ELSE lg[k]]

\* The legs when the tick has come to t: at the edit for a bet of a league
\* without an endpoint the correlation loop has run on the empty scoreboard
\* fetch_scores returned at once.
scores_legs(t, lg) ==
    IF t.pc = "edit" /\ ~has_endpoint(t.snap[t.i].bet.league)
    THEN correlate(lg, t.snap[t.i].bet, fetch_scores_unconfigured.events)
    ELSE lg

update_scores ==
    /\ UNCHANGED purevars
    /\ sc.pc = "idle"
    /\ LET next == scores_next([snap |-> tracked], 1, {}, {}, legs)
       IN  /\ sc' = TickEnd(next)
           /\ legs' = scores_legs(next, legs)
    /\ UNCHANGED <<threshold, tracked, store, posted, intakes, im, pr, finals,
                   last>>

\* fetch_scores returns to update_scores: legs are correlated and the
\* message is edited.
update_scores_fetched(resp) ==
    /\ UNCHANGED purevars
    /\ sc.pc = "fetch"
    /\ UNCHANGED <<threshold, tracked, store, posted, intakes, im, pr, finals,
                   last>>
    /\ LET bet    == sc.snap[sc.i].bet
           lg     == IF resp.error THEN legs
                     ELSE correlate(legs, bet, resp.events)
           raised == scores_next(sc, next_after_except(sc.snap, sc.i), sc.ok,
                                 sc.errs \cup {sc.i}, lg)
       IN  IF resp.error \/ bet.message = NoMsg
           THEN /\ sc' = TickEnd(raised)
                /\ legs' = scores_legs(raised, lg)
           ELSE /\ sc' = Tick("edit", sc, sc.i, 1, sc.ok, sc.errs,
                               leg_lines(bet_legs(bet, lg)))
                /\ legs' = lg

\* msg.edit returns to update_scores: the mapping is saved.
update_scores_edited(edited) ==
    /\ UNCHANGED purevars
    /\ sc.pc = "edit"
    /\ UNCHANGED <<threshold, tracked, posted, intakes, im, pr, finals, last>>
    /\ LET next == IF edited
                   THEN scores_next(sc, sc.i + 1, sc.ok \cup {sc.i}, sc.errs,
                                    legs)
                   ELSE scores_next(sc, next_after_except(sc.snap, sc.i),
                                    sc.ok, sc.errs \cup {sc.i}, legs)
       IN  /\ sc' = TickEnd(next)
           /\ legs' = scores_legs(next, legs)
           /\ store' = IF edited THEN save_tracked(tracked, legs, store)
                       ELSE store

\* ---- update_props
prop_legs(bet, lg) ==
    SelectSeq(bet.legs, LAMBDA k : lg[k].type = "prop")

leg_league(leg, bet) == IF leg.league # None THEN leg.league ELSE bet.league

\* Variant that correlates a leg again although it has a game_id.
props_game_id_rematch(leg, events) ==
    find_game_id_for_teams(leg.game_teams, events)

\* gid = leg.get("game_id") or find_game_id_for_teams(...)
props_game_id(leg, events) ==
    IF leg.game_id # None THEN leg.game_id
    ELSE find_game_id_for_teams(leg.game_teams, events)

\* Variant with inclusive inequalities.
evaluate_inclusive(side, line, current) ==
    IF side = "over" /\ current >= line THEN "won"
    ELSE IF side = "under" /\ current <= line THEN "won"
    ELSE "lost"

\* The result of a leg whose event is final.
evaluate(side, line, current) ==
    IF side = "over" /\ current > line THEN "won"
    ELSE IF side = "under" /\ current < line THEN "won"
    ELSE "lost"

\* The body of the loop over prop legs after fetch_scores has returned.
update_leg(leg, league, events) ==
    LET gid == props_game_id(leg, events)
        e   == EventIndex(events, gid, 1)
    IN  IF gid = None THEN leg
        ELSE IF e = 0 THEN [leg EXCEPT !.game_id = gid]
        ELSE LET current == find_player_stat_for_leg(league, events[e])
             IN  IF current = NoValue THEN [leg EXCEPT !.game_id = gid]
                 ELSE IF events[e].status = "final"
                 THEN [leg EXCEPT !.game_id = gid, !.current_value = current,
                           !.result = evaluate(leg.side, leg.line, current)]
                 ELSE [leg EXCEPT !.game_id = gid, !.current_value = current]

\* What update_leg read from the scoreboard for the leg.
leg_obs(k, leg, league, events) ==
    LET gid == props_game_id(leg, events)
        e   == EventIndex(events, gid, 1)
        rematch == find_game_id_for_teams(leg.game_teams, events)
    IN  IF gid = None \/ e = 0
        THEN [NoObs EXCEPT !.leg = k, !.rematch = rematch]
        ELSE [NoObs EXCEPT !.leg = k, !.rematch = rematch,
                           !.status = events[e].status,
                           !.value = find_player_stat_for_leg(league, events[e])]

\* "Settle if all legs final"
settle_ready(bet, lg) ==
    \A k \in 1..Len(bet.legs) : lg[bet.legs[k]].result \in {"won", "lost"}

\* Variant in which one leg won is enough.
all_won_any(results) == \E k \in 1..Len(results) : results[k] = "won"

\* all_won = all(l["result"] == "won" for l in bet["legs"])
all_won(results) == \A k \in 1..Len(results) : results[k] = "won"

\* The final embed: its title says won or lost, for a parlay or a bet.
final_embed(bet, lg) ==
    LET results == [k \in 1..Len(bet.legs) |-> lg[bet.legs[k]].result]
    IN  [outcome  |-> IF all_won(results) THEN "won" ELSE "lost",
         bet_type |-> bet.bet_type,
         results  |-> results,
         lines    |-> leg_lines(bet_legs(bet, lg))]

\* Variant in which a settled bet is left in the mapping.
after_settle_kept(m, key) == m

\* What is left of self.tracked after a bet has been settled.
after_settle(m, key) == DictPop(m, key)

\* The tick runs from prop leg j of bet i on until it suspends in an await
\* or ends.  A bet without prop legs is skipped; a prop leg without a league
\* or without game_teams is skipped; after the last prop leg the bet is
\* settled when all its legs are final.  (A league without an endpoint
\* gives no event, and the leg is left as it is.)
RECURSIVE props_next(_, _, _, _, _, _)
props_next(t, i, j, ok, errs, lg) ==
    IF i > Len(t.snap) THEN Tick("idle", t, i, 1, ok, errs, None)
    ELSE LET bet == t.snap[i].bet
             pl  == prop_legs(bet, lg)
         IN  IF pl = <<>>
             THEN props_next(t, i + 1, 1, ok \cup {i}, errs, lg)
             ELSE IF j <= Len(pl)
             THEN LET league == leg_league(lg[pl[j]], bet)
                  IN  IF league = None \/ lg[pl[j]].game_teams = <<>>
                      THEN props_next(t, i, j + 1, ok, errs, lg)
                      ELSE IF has_endpoint(league)
                      THEN Tick("fetch", t, i, j, ok, errs, None)
                      ELSE props_next(t, i, j + 1, ok, errs, lg)
             ELSE IF ~settle_ready(bet, lg)
             THEN props_next(t, i + 1, 1, ok \cup {i}, errs, lg)
             ELSE IF bet.message = NoMsg
             THEN props_next(t, next_after_except(t.snap, i), 1, ok,
                             errs \cup {i}, lg)
             ELSE Tick("edit", t, i, j, ok, errs, final_embed(bet, lg))

update_props ==
    /\ UNCHANGED purevars
    /\ pr.pc = "idle"
    /\ LET next == props_next([snap |-> tracked], 1, 1, {}, {}, legs)
       IN  /\ pr' = TickEnd(next)
           /\ last' = StepObs("update_props", Done(TickIdle, next), <<>>, NoObs)
    /\ UNCHANGED <<threshold, tracked, legs, store, posted, intakes, im, sc,
                   finals>>

\* fetch_scores returns to update_props: the prop leg is updated and the
\* tick goes on with the next prop leg or with the settlement of the bet.
update_props_fetched(resp) ==
    /\ UNCHANGED purevars
    /\ pr.pc = "fetch"
    /\ UNCHANGED <<threshold, tracked, store, posted, intakes, im, sc, finals>>
    /\ LET bet    == pr.snap[pr.i].bet
           k      == prop_legs(bet, legs)[pr.j]
           league == leg_league(legs[k], bet)
           lg     == IF resp.error THEN legs
                     ELSE [legs EXCEPT
                             ![k] = update_leg(legs[k], league, resp.events)]
           next   == IF resp.error
                     THEN props_next(pr, next_after_except(pr.snap, pr.i), 1,
                                     pr.ok, pr.errs \cup {pr.i}, lg)
                     ELSE props_next(pr, pr.i, pr.j + 1, pr.ok, pr.errs, lg)
       IN  /\ legs' = lg
           /\ pr' = TickEnd(Written(pr, next, lg # legs))
           /\ last' = IF resp.error
                      THEN StepObs("update_props", Done(pr, next), <<"error">>,
                                   NoObs)
                      ELSE StepObs("update_props", Done(pr, next), <<>>,
                                   leg_obs(k, legs[k], league, resp.events))

\* The edit of the final embed returns to update_props: the bet is removed
\* from self.tracked and the mapping is saved.
update_props_edited(edited) ==
    /\ UNCHANGED purevars
    /\ pr.pc = "edit"
    /\ UNCHANGED <<threshold, legs, posted, intakes, im, sc>>
    /\ LET id   == pr.snap[pr.i].id
           m    == pr.snap[pr.i].bet.message
           next == IF edited
                   THEN props_next(pr, pr.i + 1, 1, pr.ok \cup {pr.i}, pr.errs,
                                   legs)
                   ELSE props_next(pr, next_after_except(pr.snap, pr.i), 1,
                                   pr.ok, pr.errs \cup {pr.i}, legs)
       IN  /\ pr' = TickEnd(next)
           /\ IF edited
              THEN /\ finals' = [finals EXCEPT ![m] = Append(@, pr.pend)]
                   /\ tracked' = after_settle(tracked, id)
                   /\ store' = save_tracked(tracked', legs, store)
                   /\ last' = StepObs("update_props", Done(pr, next),
                                      <<"edit", "final", "save">>, NoObs)
              ELSE /\ UNCHANGED <<finals, tracked, store>>
                   /\ last' = StepObs("update_props", Done(pr, next),
                                      <<"error">>, NoObs)

\* ---- cog_unload
cog_unload ==
    /\ UNCHANGED purevars
    /\ Loaded
    /\ sc' = Cancelled
    /\ pr' = Cancelled
    /\ store' = save_tracked(tracked, legs, store)
    /\ UNCHANGED <<threshold, tracked, legs, posted, intakes, im, finals, last>>

\* ---- the program
Next ==
    \/ cog_unload
    \/ \E msg \in Messages, ocr \in OcrOutcomes : on_message(msg, ocr)
    \/ \E sent \in BOOLEAN : on_message_posted(sent)
    \/ \E sent \in BOOLEAN : on_message_posted_again(sent)
    \/ \E bet_id \in 1..(2 * MaxIntakes) : remove_bet(bet_id)
    \/ update_scores
    \/ \E resp \in Responses : update_scores_fetched(resp)
    \/ \E edited \in BOOLEAN : update_scores_edited(edited)
    \/ update_props
    \/ \E resp \in Responses : update_props_fetched(resp)
    \/ \E edited \in BOOLEAN : update_props_edited(edited)

Spec == Init /\ [][Next]_vars

\* ==================================================================
\* Storage: startup from a store in any condition, and the addbet and
\* removebet commands on a file system that can fail.
\* ==================================================================
\* The leg and the record add_bet builds.
ManualLeg ==
    [type |-> "manual", league |-> None, side |-> None, line |-> NoValue,
     game_teams |-> <<>>, game_id |-> None, current_value |-> NoValue,
     result |-> None]
ManualBet(leg_ids) ==
    [league |-> None, bet_type |-> "manual", legs |-> leg_ids,
     message |-> NoMsg]

\* bet_id = f"manual-{len(self.tracked)+1}": the number stands for the key.
manual_id(m) == Len(m) + 1

\* The conditions the store can be in at startup.
StoredManual ==
    Serialised(<<[id |-> 1, bet |-> ManualBet(<<1>>)]>>, <<ManualLeg>>)
StoreFiles ==
    { MissingFile, DefectFile("unreadable"), DefectFile("corrupt"),
      JsonFile(<<>>), JsonFile(StoredManual) }

StoreInit ==
    /\ text = <<>>
    /\ routed = NotRouted
    /\ slip = NotParsed
    /\ LibIdle
    /\ threshold = 35
    /\ store \in StoreFiles
    /\ tracked = <<>>
    /\ legs = <<>>
    /\ posted = 0
    /\ intakes = 0
    /\ im = Idle
    /\ sc = TickIdle
    /\ pr = TickIdle
    /\ finals = <<>>
    /\ last = Step("boot", <<>>)

\* Bets.__init__: self.tracked = load_tracked()
startup ==
    /\ UNCHANGED purevars
    /\ last.op = "boot"
    /\ LET out == load_tracked_bets(store)
       IN  IF out.raised
           THEN /\ last' = Step("load", <<"raised">>)
                /\ UNCHANGED <<tracked, legs>>
           ELSE /\ last' = Step("load", <<>>)
                /\ tracked' = LoadedBets(out.data)
                /\ legs' = LoadedLegs(out.data)
    /\ UNCHANGED <<threshold, store, posted, intakes, im, sc, pr, finals>>

\* The addbet command.
add_bet(io_ok) ==
    /\ UNCHANGED purevars
    /\ last.op # "boot"
    /\ last.fx # <<"raised">>
    /\ intakes < MaxCommands
    /\ intakes' = intakes + 1
    /\ legs' = Append(legs, ManualLeg)
    /\ tracked' = DictSet(tracked, manual_id(tracked),
                          ManualBet(<<Len(legs) + 1>>))
    /\ LET out == save_tracked_bets(tracked', legs', store, io_ok)
       IN  /\ store' = out.store
           /\ last' = IF out.raised THEN Step("add_bet", <<"raised">>)
                      ELSE Step("add_bet", <<"save", "send">>)
    /\ UNCHANGED <<threshold, posted, im, sc, pr, finals>>

StoreNext ==
    \/ startup
    \/ \E io_ok \in BOOLEAN : add_bet(io_ok)
    \/ \E bet_id \in 1..MaxCommands : remove_bet(bet_id)

StoreSpec == StoreInit /\ [][StoreNext]_vars

\* ==================================================================
\* Transcripts: route_text and parse_slip applied to a text.
\* ==================================================================
TextInit ==
    /\ text \in Texts
    /\ routed = NotRouted
    /\ slip = NotParsed
    /\ LibIdle
    /\ threshold = 35
    /\ store = MissingFile
    /\ tracked = <<>>
    /\ legs = <<>>
    /\ posted = 0
    /\ intakes = 0
    /\ im = Idle
    /\ sc = TickIdle
    /\ pr = TickIdle
    /\ finals = <<>>
    /\ last = Step("init", <<>>)

Route(normalize) ==
    /\ ~routed.done
    /\ routed' = [done |-> TRUE, normalize |-> normalize,
                  text |-> route_text(text, normalize)]
    /\ UNCHANGED <<threshold, tracked, legs, store, posted, intakes, im, sc,
                   pr, finals, last, text, slip>>
    /\ UNCHANGED libvars

Parse(catalog) ==
    /\ ~slip.done
    /\ slip' = [done |-> TRUE, parsed |-> parse_slip_text(text, catalog),
                blocks |-> split_into_leg_blocks(text)]
    /\ UNCHANGED <<threshold, tracked, legs, store, posted, intakes, im, sc,
                   pr, finals, last, text, routed>>
    /\ UNCHANGED libvars

TextNext ==
    \/ \E normalize \in BOOLEAN : Route(normalize)
    \/ \E catalog \in BOOLEAN : Parse(catalog)

TextSpec == TextInit /\ [][TextNext]_vars

\* ==================================================================
\* Correlation: one leg, correlated cycle after cycle with the scoreboard
\* of the cycle, as the loop over the legs in update_scores does.
\* ==================================================================
MaxFixtures == 3
MaxCycles == 2

\* The team names a leg can carry: none, one, or a pair.
TeamNames == {"A", "B", "C"}
TeamLists == UNION { [1..n -> TeamNames] : n \in 0..2 }

\* The events of the scoreboards: three identifiers, each a game of A and
\* B, of A and Bx, or of C and D (two games of the same pair on one
\* scoreboard are a doubleheader).
Fixtures ==
    { [id |-> id, names |-> names] :
        id \in {"g1", "g2", "g3"},
        names \in { <<"A", "B">>, <<"A", "Bx">>, <<"C", "D">> } }
FixtureLists ==
    { s \in UNION { [1..k -> Fixtures] : k \in 0..MaxFixtures } :
        \A i, j \in 1..Len(s) : i # j => s[i].id # s[j].id }

MatchInit ==
    /\ text = <<>>
    /\ routed = NotRouted
    /\ slip = NotParsed
    /\ \E teams \in TeamLists : corr = [NoCorr EXCEPT !.game_teams = teams]
    /\ scan = NoScan
    /\ cat = NoCat
    /\ threshold = 35
    /\ store = MissingFile
    /\ tracked = <<>>
    /\ legs = <<>>
    /\ posted = 0
    /\ intakes = 0
    /\ im = Idle
    /\ sc = TickIdle
    /\ pr = TickIdle
    /\ finals = <<>>
    /\ last = Step("init", <<>>)

\* One cycle for the leg: if it has no game_id and has team names,
\* find_game_id_for_teams is asked, and what it returns, if anything,
\* becomes the leg's game_id.  The leg's result is not touched.
Correlate(events) ==
    /\ corr.cycles < MaxCycles
    /\ LET gid == scores_game_id(corr, events)
       IN  corr' = [corr EXCEPT !.cycles = @ + 1,
                                !.events = events,
                                !.had = corr.game_id,
                                !.found = gid,
                                !.game_id = IF gid # None THEN gid ELSE @]
    /\ UNCHANGED <<threshold, tracked, legs, store, posted, intakes, im, sc,
                   pr, finals, last, textvars, scan, cat>>

MatchNext == \E events \in FixtureLists : Correlate(events)

MatchSpec == MatchInit /\ [][MatchNext]_vars

\* ==================================================================
\* Leagues: one leg of a bet, correlated by the two ticks with the
\* scoreboards each of them fetches.
\* ==================================================================
\* The leagues of the slips, and the teams the parser finds for a leg of a
\* league in that league's catalog (none for a leg without a league).
SlipLeagues == {"NFL", "NBA"}
LeagueTeams(league) ==
    IF league = "NFL" THEN <<"A", "B">>
    ELSE IF league = "NBA" THEN <<"Ax", "Bx">>
    ELSE <<>>

\* The events of a league's scoreboard: each league has its own
\* identifiers, and its games are games of its own teams.
LeagueFixtures(league) ==
    IF league = "NFL"
    THEN { [id |-> id, names |-> names] :
             id \in {"g1", "g2"}, names \in { <<"A", "B">>, <<"C", "D">> } }
    ELSE IF league = "NBA"
    THEN { [id |-> id, names |-> names] :
             id \in {"n1", "n2"}, names \in { <<"Ax", "Bx">>, <<"Cx", "Dx">> } }
    ELSE {}
LeagueBoards(league) ==
    { s \in UNION { [1..k -> LeagueFixtures(league)] : k \in 0..MaxFixtures } :
        \A i, j \in 1..Len(s) : i # j => s[i].id # s[j].id }

LeagueInit ==
    /\ text = <<>>
    /\ routed = NotRouted
    /\ slip = NotParsed
    /\ scan = NoScan
    /\ cat = NoCat
    /\ \E league \in SlipLeagues \cup {None}, bet_league \in SlipLeagues :
          corr = [NoCorr EXCEPT !.league = league,
                                !.bet_league = bet_league,
                                !.game_teams = LeagueTeams(league)]
    /\ threshold = 35
    /\ store = MissingFile
    /\ tracked = <<>>
    /\ legs = <<>>
    /\ posted = 0
    /\ intakes = 0
    /\ im = Idle
    /\ sc = TickIdle
    /\ pr = TickIdle
    /\ finals = <<>>
    /\ last = Step("init", <<>>)

\* update_scores for the leg: the scoreboard is that of the bet's league,
\* scoreboard = await fetch_scores(bet["league"]), and the league handed to
\* find_game_id_for_teams is not used by it.
ScoresCycle(events) ==
    /\ corr.cycles < MaxCycles
    /\ events \in LeagueBoards(corr.bet_league)
    /\ LET gid == scores_game_id(corr, events)
       IN  corr' = [corr EXCEPT !.cycles = @ + 1,
                                !.events = events,
                                !.had = corr.game_id,
                                !.found = gid,
                                !.game_id = IF gid # None THEN gid ELSE @]
    /\ UNCHANGED <<threshold, tracked, legs, store, posted, intakes, im, sc,
                   pr, finals, last, textvars, scan, cat>>

\* update_props for the leg: the scoreboard is that of the leg's league,
\* or of the bet's league for a leg without one; a leg without team names
\* is passed over before the fetch.
PropsCycle(events) ==
    /\ corr.cycles < MaxCycles
    /\ corr.game_teams # <<>>
    /\ events \in LeagueBoards(leg_league(corr, [league |-> corr.bet_league]))
    /\ LET gid == props_game_id(corr, events)
       IN  corr' = [corr EXCEPT !.cycles = @ + 1,
                                !.events = events,
                                !.had = corr.game_id,
                                !.found = gid,
                                !.game_id = IF gid # None THEN gid ELSE @]
    /\ UNCHANGED <<threshold, tracked, legs, store, posted, intakes, im, sc,
                   pr, finals, last, textvars, scan, cat>>

Boards == UNION { LeagueBoards(league) : league \in SlipLeagues }

LeagueNext ==
    \/ \E events \in Boards : ScoresCycle(events)
    \/ \E events \in Boards : PropsCycle(events)

LeagueSpec == LeagueInit /\ [][LeagueNext]_vars

\* ==================================================================
\* ocr_advanced.py: ocr_image_multi on one image.
\* ==================================================================
MaxVariants == 2

\* A transcript is a sequence of characters.  What the engine gives for a
\* variant under a config: an exception, or its raw output, which ends
\* with a form feed.
FF == "\f"
EngineError == <<"error">>
RawOutputs ==
    { <<FF>>, <<".", NL, FF>>, <<".", ".", NL, FF>>, <<"7", NL, FF>> }
EngineOutcomes == {EngineError} \cup RawOutputs

\* _sanitize: characters outside the printable range are removed and the
\* empty lines at the end are dropped.  (The raw outputs have no blanks at
\* the ends of their lines, no backslash and no compatibility character.)
RECURSIVE drop_trailing_newlines(_)
drop_trailing_newlines(t) ==
    IF t # <<>> /\ t[Len(t)] = NL
    THEN drop_trailing_newlines(SubSeq(t, 1, Len(t) - 1))
    ELSE t
sanitize(raw) ==
    drop_trailing_newlines(SelectSeq(raw, LAMBDA c : c # FF))

\* _ocr_once: an exception of the engine gives the empty transcript.
ocr_once(outcome) ==
    IF outcome = EngineError THEN <<>> ELSE sanitize(outcome)

\* _score_text, in hundredths.  Every expected token has three characters
\* or more, so none occurs in a transcript of one line of at most two.
count(t, S) == Cardinality({ i \in 1..Len(t) : t[i] \in S })
expected_tokens(t) == 0
score_text(t) ==
    IF t = <<>> THEN 0
    ELSE LET L     == Len(t)
             alpha == count(t, {"a"})
             digit == count(t, {"7"})
             signs == count(t, {"+", "-"})
             lines == count(t, {NL}) + 1
             score == (3500 * alpha + 2500 * digit) \div L
                      + 150 * Min2(signs, 10)
                      + 300 * Min2(expected_tokens(t), 10)
                      + 50 * Min2(lines, 40)
         IN  IF L < 60 THEN (score * 6) \div 10 ELSE score

\* The variants ocr_image_multi runs, as (mode, rot or 0), of which the
\* first MaxVariants are taken, and the configs it runs each of them under.
variants ==
    << <<"primary", 0>>, <<"light", 0>>, <<"contrast", 0>>,
       <<"primary", 90>>, <<"primary", 180>>, <<"primary", 270>> >>
Taken == SubSeq(variants, 1, Min2(MaxVariants, Len(variants)))
TESS_CONFIGS == <<"--oem 3 --psm 6", "--oem 3 --psm 4">>
NumCandidates == Len(Taken) * Len(TESS_CONFIGS)

\* The c-th candidate in the order of the two loops: its key in raw_map.
key_of(c) ==
    <<Taken[((c - 1) \div Len(TESS_CONFIGS)) + 1][1],
      Taken[((c - 1) \div Len(TESS_CONFIGS)) + 1][2],
      (c - 1) % Len(TESS_CONFIGS)>>

\* raw_map[key] after the loops: the text of the last candidate of the key.
raw_map(texts, key) ==
    texts[CHOOSE c \in 1..Len(texts) :
            /\ key_of(c) = key
            /\ \A d \in (c + 1)..Len(texts) : key_of(d) # key]

\* Variant in which the longer transcript comes before the higher score.
better_by_length(a, b) ==
    \/ a.length > b.length
    \/ a.length = b.length /\ a.score > b.score

\* (score, length) of a is greater than that of b, as tuples compare.
better(a, b) ==
    \/ a.score > b.score
    \/ a.score = b.score /\ a.length > b.length

\* max(candidates, key=...): the first candidate no other is better than.
best_of(candidates) ==
    CHOOSE c \in 1..Len(candidates) :
        /\ \A d \in 1..Len(candidates) : ~better(candidates[d], candidates[c])
        /\ \A d \in 1..(c - 1) : better(candidates[c], candidates[d])

OcrInit ==
    /\ text = <<>>
    /\ routed = NotRouted
    /\ slip = NotParsed
    /\ corr = NoCorr
    /\ cat = NoCat
    /\ \E decodable \in BOOLEAN : scan = [NoScan EXCEPT !.decodable = decodable]
    /\ threshold = 35
    /\ store = MissingFile
    /\ tracked = <<>>
    /\ legs = <<>>
    /\ posted = 0
    /\ intakes = 0
    /\ im = Idle
    /\ sc = TickIdle
    /\ pr = TickIdle
    /\ finals = <<>>
    /\ last = Step("init", <<>>)

\* ocr_image_multi(img_bytes): _preprocess_variant raises for bytes that
\* are no image, before the engine is called; otherwise every variant is
\* read under every config and the best candidate's text is returned.
ocr_image_multi(engine) ==
    /\ ~scan.done
    /\ IF ~scan.decodable
       THEN scan' = [scan EXCEPT !.done = TRUE, !.raised = TRUE]
       ELSE LET texts      == [c \in 1..NumCandidates |-> ocr_once(engine[c])]
                candidates == [c \in 1..NumCandidates |->
                                 [score  |-> score_text(texts[c]),
                                  length |-> Len(texts[c])]]
            IN  scan' = [scan EXCEPT
                           !.done = TRUE,
                           !.engine = engine,
                           !.candidates = candidates,
                           !.text = raw_map(texts, key_of(best_of(candidates)))]
    /\ UNCHANGED <<threshold, tracked, legs, store, posted, intakes, im, sc,
                   pr, finals, last, textvars, corr, cat>>

OcrNext == \E engine \in [1..NumCandidates -> EngineOutcomes] : ocr_image_multi(engine)

OcrSpec == OcrInit /\ [][OcrNext]_vars

\* ==================================================================
\* Catalogs: refresh_catalogs and the tasks it gathers.
\* ==================================================================
MaxTicks == 3

\* CATALOG_REFRESH_INTERVAL, in seconds, and the step of the clock.
CATALOG_REFRESH_INTERVAL == 86400
HalfDay == CATALOG_REFRESH_INTERVAL \div 2
StartClock == 2 * CATALOG_REFRESH_INTERVAL

\* The leagues of ESPN_TEAM_ENDPOINTS: a team sport, whose players come
\* from the rosters of its teams, and UFC, whose fighters come from the
\* athletes endpoint.
CatalogLeagues == {"NFL", "UFC"}
CatalogTeams(league) == IF league = "NFL" THEN {"A", "B"} ELSE {"UFC"}
CatalogPlayers(league) ==
    IF league = "NFL" THEN {"Drake Maye"} ELSE {"Fighter"}

\* What _fetch_json gives the task of a league: nothing for the teams
\* endpoint (a status other than 200, or an exception), the teams but
\* nothing for the rosters or athletes, or the teams and the players.
FetchOutcomes == {"failed", "teams", "all"}

\* teams and players at the end of _fetch_league_teams_and_players: the
\* lists start empty and stay so for what was not fetched.
fetched_teams(league, outcome) ==
    IF outcome = "failed" THEN {} ELSE CatalogTeams(league)
fetched_players(league, outcome) ==
    IF outcome = "all" THEN CatalogPlayers(league) ELSE {}

CatalogInit ==
    /\ text = <<>>
    /\ routed = NotRouted
    /\ slip = NotParsed
    /\ corr = NoCorr
    /\ scan = NoScan
    /\ cat = [NoCat EXCEPT !.TEAM_MAP = [l \in CatalogLeagues |-> {}],
                           !.PLAYER_MAP = [l \in CatalogLeagues |-> {}],
                           !.clock = StartClock]
    /\ threshold = 35
    /\ store = MissingFile
    /\ tracked = <<>>
    /\ legs = <<>>
    /\ posted = 0
    /\ intakes = 0
    /\ im = Idle
    /\ sc = TickIdle
    /\ pr = TickIdle
    /\ finals = <<>>
    /\ last = Step("init", <<>>)

CatalogFrame ==
    UNCHANGED <<threshold, tracked, legs, store, posted, intakes, im, sc, pr,
                finals, last, textvars, corr, scan>>

\* Time passes.
ClockTick ==
    /\ cat.clock < StartClock + MaxTicks * HalfDay
    /\ cat' = [cat EXCEPT !.clock = @ + HalfDay]
    /\ CatalogFrame

\* refresh_catalogs(force) takes the lock: within the interval it returns
\* unless forced, otherwise it starts one task per league and awaits them.
refresh_catalogs(force) ==
    /\ cat.pc = "idle"
    /\ IF ~force /\ (cat.clock - cat.last) < CATALOG_REFRESH_INTERVAL
       THEN cat' = cat
       ELSE cat' = [cat EXCEPT !.pc = "gather", !.now = cat.clock,
                               !.pending = CatalogLeagues, !.failed = {}]
    /\ CatalogFrame

\* The task of a league ends: whatever it collected replaces the league's
\* lists.
fetch_league_teams_and_players(league, outcome) ==
    /\ cat.pc = "gather"
    /\ league \in cat.pending
    /\ cat' = [cat EXCEPT
                 !.TEAM_MAP[league] = fetched_teams(league, outcome),
                 !.PLAYER_MAP[league] = fetched_players(league, outcome),
                 !.pending = @ \ {league},
                 !.failed = IF outcome = "failed" THEN @ \cup {league} ELSE @]
    /\ CatalogFrame

\* asyncio.gather returns: the refresh is recorded at the time it began.
refresh_catalogs_gathered ==
    /\ cat.pc = "gather"
    /\ cat.pending = {}
    /\ cat' = [cat EXCEPT !.pc = "idle", !.last = cat.now]
    /\ CatalogFrame

CatalogNext ==
    \/ ClockTick
    \/ \E force \in BOOLEAN : refresh_catalogs(force)
    \/ \E league \in CatalogLeagues, outcome \in FetchOutcomes :
          fetch_league_teams_and_players(league, outcome)
    \/ refresh_catalogs_gathered

CatalogSpec == CatalogInit /\ [][CatalogNext]_vars

\* ==================================================================
\* Properties
\* ==================================================================
Terminal == {"won", "lost", "push"}

BetOf(id) == tracked[KeyIndex(tracked, id)].bet

\* C1: a leg's result only changes from pending to a terminal value; once
\* it is terminal no later tick writes another value, whatever stat value a
\* later scoreboard shows for the final event.
C1_ResultWrittenOnce ==
    [][\A k \in 1..Len(legs) :
          legs[k].result # "pending" => legs'[k].result = legs[k].result]_vars

\* C2: once a leg's game_id is set to an identifier it has that identifier
\* in every later state, whichever tick runs and whatever the later
\* scoreboards hold.
C2_GameIdKept ==
    [][\A k \in 1..Len(legs) :
          legs[k].game_id # None => legs'[k].game_id = legs[k].game_id]_vars

\* C2 witness: update_props has worked on a leg that keeps the identifier g1
\* with a scoreboard on which the correlation gives g2.
C2_Witness ==
    /\ last.op = "update_props"
    /\ last.obs.leg # 0
    /\ last.obs.rematch = "g2"
    /\ legs[last.obs.leg].game_id = "g1"

C4_SettledOnce ==
    \A m \in 1..posted :
        /\ Len(finals[m]) <= 1
        /\ finals[m] # <<>> => m \notin Keys(tracked)

\* C4 witness: a bet has been settled and a later props tick, whose snapshot
\* does not hold it, is at the settlement of another bet.
C4_Witness ==
    \E m \in 1..posted :
        /\ finals[m] # <<>>
        /\ pr.pc = "edit"
        /\ m \notin Keys(pr.snap)

\* C5: once a bet is out of the active set, no step of a tick that is at
\* that bet writes its legs or settles it.
C5_RemovedBetUntouched ==
    [][/\ (sc.pc # "idle" /\ sc' # sc /\ sc.snap[sc.i].id \notin Keys(tracked))
            => legs' = legs
       /\ (pr.pc # "idle" /\ pr' # pr /\ pr.snap[pr.i].id \notin Keys(tracked))
            => (legs' = legs /\ finals' = finals)]_vars

\* C6: when the confidence on_message computes is below the threshold, the
\* handler ends there: nothing is added to the active set, nothing is saved,
\* and the low-confidence warning is all it sends.
C6_LowConfidenceNoState ==
    [][(/\ intakes' = intakes + 1
        /\ last'.obs.confidence # NoValue
        /\ last'.obs.confidence < threshold)
          => /\ tracked' = tracked
             /\ store' = store
             /\ im'.pc = "idle"
             /\ last'.fx = <<"low_confidence">>]_vars

\* C6 witness: a slip of unknown legs only has been turned away.
C6_Witness ==
    /\ last.op = "on_message"
    /\ last.obs.confidence = 50
    /\ threshold = 70
    /\ last.fx = <<"low_confidence">>
    /\ tracked = <<>>

C8_StrictInequality ==
    (/\ last.op = "update_props"
     /\ last.obs.leg # 0
     /\ last.obs.status = "final"
     /\ last.obs.value # NoValue)
      => LET leg == legs[last.obs.leg]
             v   == last.obs.value
         IN  leg.result =
               IF \/ (leg.side = "over" /\ v > leg.line)
                  \/ (leg.side = "under" /\ v < leg.line)
               THEN "won" ELSE "lost"

\* C8 witness: a final event with the value on the line of an over leg.
C8_Witness ==
    /\ last.op = "update_props"
    /\ last.obs.leg # 0
    /\ last.obs.status = "final"
    /\ last.obs.value = 200
    /\ legs[last.obs.leg].side = "over"
    /\ legs[last.obs.leg].line = 200
    /\ legs[last.obs.leg].result = "lost"

\* C9: the outcome in a final render is won exactly when every leg's result
\* is won and lost otherwise; for one leg it is that leg's result.
C9_OutcomeAllWon ==
    \A m \in 1..posted : \A n \in 1..Len(finals[m]) :
        LET f == finals[m][n]
        IN  /\ f.outcome \in {"won", "lost"}
            /\ f.outcome = "won" <=>
                  \A k \in 1..Len(f.results) : f.results[k] = "won"
            /\ Len(f.results) = 1 => f.outcome = f.results[1]

\* C9 witness: a parlay with one leg won and one leg lost was settled.
C9_Witness ==
    \E m \in 1..posted :
        /\ finals[m] # <<>>
        /\ finals[m][1].bet_type = "parlay"
        /\ finals[m][1].results = <<"won", "lost">>
        /\ finals[m][1].outcome = "lost"

\* C10: a tick that has ended has been at every bet of its snapshot, those
\* after a bet whose iteration raised included.
C10_TickVisitsEveryBet ==
    /\ sc.pc = "idle" => sc.report.visited = sc.report.total
    /\ pr.pc = "idle" => pr.report.visited = pr.report.total

\* C10 witness: a scores tick and a props tick have each ended after going
\* on past a bet that raised.
C10_Witness ==
    /\ sc.pc = "idle" /\ sc.report.recovered
    /\ pr.pc = "idle" /\ pr.report.recovered

\* Where a tick is after the exception that fetch_scores raised into the
\* iteration of the bet it is at.
ScoresRaised ==
    TickEnd(scores_next(sc, next_after_except(sc.snap, sc.i), sc.ok,
                        sc.errs \cup {sc.i}, legs))
PropsRaised ==
    TickEnd(props_next(pr, next_after_except(pr.snap, pr.i), 1, pr.ok,
                       pr.errs \cup {pr.i}, legs))

\* C11: a tick updates all the leg fields of a bet or none: when the fetch
\* for a bet raises, the step writes no leg and the iteration it ends has
\* written no leg field of the bet before.
C11_AllOrNothing ==
    [][/\ (sc.pc = "fetch" /\ sc' = ScoresRaised /\ tracked' = tracked)
            => legs' = legs
       /\ (pr.pc = "fetch" /\ pr' = PropsRaised /\ legs' = legs
             /\ last'.fx = <<"error">>)
            => ~pr.wrote]_vars

\* C12: a scores tick never suspends in a fetch for a bet whose league has
\* no endpoint; it gets the empty scoreboard at once and goes on to the
\* edit without an exception, and neither that step nor the step after the
\* edit writes a leg: no game_id is assigned and every result stays as it
\* was.
C12_UnconfiguredLeague ==
    [][sc' # sc =>
         /\ sc'.pc = "fetch" =>
                sc'.snap[sc'.i].bet.league \in ESPN_SCOREBOARD
         /\ (/\ sc'.pc = "edit"
             /\ sc'.snap[sc'.i].bet.league \notin ESPN_SCOREBOARD)
              => (legs' = legs /\ sc'.i \notin sc'.errs)
         /\ (/\ sc.pc = "edit"
             /\ sc.snap[sc.i].bet.league \notin ESPN_SCOREBOARD)
              => legs' = legs]_vars

\* C12 witness: a scores tick is at the edit for a bet without a league,
\* whose leg has no game_id and is pending.
C12_Witness ==
    /\ sc.pc = "edit"
    /\ sc.snap[sc.i].bet.league \notin ESPN_SCOREBOARD
    /\ Len(sc.snap[sc.i].bet.legs) = 1
    /\ legs[sc.snap[sc.i].bet.legs[1]].game_id = None
    /\ legs[sc.snap[sc.i].bet.legs[1]].result = "pending"

\* C13: save is called after every batch of changes: the step of on_message
\* that adds a bet to the mapping saves it, and the step of update_props
\* that ends the iteration of a bet saves the mapping when that iteration
\* has written a field of a leg or removed the bet.
C13_SaveAfterMutation ==
    [][LET saved == \E n \in 1..Len(last'.fx) : last'.fx[n] = "save"
       IN  /\ (posted' # posted /\ tracked' # tracked) => saved
           /\ (/\ pr.pc # "idle"
               /\ pr' # pr
               /\ pr'.pc # "cancelled"
               /\ (pr'.pc = "idle" \/ pr'.i # pr.i)
               /\ (pr.wrote \/ legs' # legs \/ tracked' # tracked))
                => saved]_vars

C15_LoadNeverRaises ==
    last.op = "load" =>
        /\ last.fx # <<"raised">>
        /\ (~store.exists \/ store.defect # None) =>
               (tracked = <<>> /\ legs = <<>>)

\* C15 witness: the cog has started from a store that holds no JSON.
C15_Witness ==
    /\ last.op = "load"
    /\ store = DefectFile("corrupt")
    /\ tracked = <<>>

\* C16: a save that fails does not raise and does not touch the mapping in
\* memory: addbet ends normally with the new record in self.tracked, and
\* the store is either the dump of the mapping or what it was.
C16_SaveFailureKeepsMemory ==
    [][intakes' = intakes + 1 =>
         /\ last'.fx = <<"save", "send">>
         /\ tracked' = DictSet(tracked, manual_id(tracked),
                               ManualBet(<<Len(legs) + 1>>))
         /\ \/ store' = store
            \/ store' = JsonFile(Serialised(tracked', legs'))]_vars

\* C16 witness: addbet has ended normally after a save that failed: the
\* store does not hold the mapping that is in memory.
C16_Witness ==
    /\ last.op = "add_bet"
    /\ last.fx = <<"save", "send">>
    /\ tracked # <<>>
    /\ store # JsonFile(Serialised(tracked, legs))

SameLegs(lines, ls) ==
    /\ Len(lines) = Len(ls)
    /\ \A k \in 1..Len(ls) :
        /\ lines[k].idx = k
        /\ lines[k].type = ls[k].type
        /\ lines[k].side = ls[k].side
        /\ lines[k].line = ls[k].line

RendersInOrder ==
    /\ im.pc \in {"send1", "send2"} => SameLegs(im.embed, im.parsed.legs)
    /\ sc.pc = "edit" =>
          SameLegs(sc.pend, bet_legs(sc.snap[sc.i].bet, legs))
    /\ pr.pc = "edit" =>
          SameLegs(pr.pend.lines, bet_legs(pr.snap[pr.i].bet, legs))

C18_LegOrderFixed ==
    /\ []RendersInOrder
    /\ [][/\ \A i \in 1..Len(tracked) : \A j \in 1..Len(tracked') :
                tracked[i].id = tracked'[j].id =>
                    tracked'[j].bet.legs = tracked[i].bet.legs
          /\ \A k \in 1..Len(legs) :
                /\ legs'[k].type = legs[k].type
                /\ legs'[k].side = legs[k].side
                /\ legs'[k].line = legs[k].line
          /\ \A m \in 1..posted : \A n \in 1..Len(finals[m]) :
                finals'[m][n] = finals[m][n]
          /\ (im.pc \in {"send1", "send2"} /\ posted' # posted) =>
                SameLegs(im.embed,
                         bet_legs(tracked'[Len(tracked')].bet, legs'))]_vars

\* A parlay of an over and an under has been settled and its final embed
\* lists two legs.
C18_Witness ==
    \E m \in 1..posted :
        /\ finals[m] # <<>>
        /\ Len(finals[m][1].lines) = 2
        /\ finals[m][1].lines[1].side # finals[m][1].lines[2].side

\* C19: route_text only rearranges white space.  Header lines apart, the
\* routed text holds the tokens of the text in their order, and the stake,
\* the payout, the odds and the lines of the legs parsed from it are those
\* parsed from the text.
NotSpace(tok) == tok # NL
Content(t) == SelectSeq(t, NotSpace)
LegLines(t) ==
    [i \in 1..Len(parse_slip_text(t, FALSE).legs) |->
        parse_slip_text(t, FALSE).legs[i].line]
Routable ==
    IF routed.normalize THEN normalize_headers_footers(text) ELSE text

C19_RouterKeepsTokens ==
    routed.done =>
        /\ Content(routed.text) = Content(Routable)
        /\ extract_stake(routed.text) = extract_stake(Routable)
        /\ extract_payout(routed.text) = extract_payout(Routable)
        /\ extract_odds(routed.text) = extract_odds(Routable)
        /\ LegLines(routed.text) = LegLines(Routable)

\* C20: the transcript of a player-stat line, an over line, an odds line and
\* a stake line parses to a single bet with one leg, the prop of that
\* player and stat with side over and line 225.5, odds -115 and stake 50.
DrakeMayeSlip ==
    join(<< <<PlayerStat>>, <<"Over", "225.5">>, <<"-115">>,
            <<"Stake", "$50">> >>)

C20_OverLineJoinsPlayerLine ==
    (slip.done /\ text = DrakeMayeSlip) =>
        /\ slip.parsed.bet_type = "single"
        /\ slip.parsed.odds = 0 - 115
        /\ slip.parsed.stake = 500
        /\ Len(slip.parsed.legs) = 1
        /\ slip.parsed.legs[1].type = "prop"
        /\ slip.parsed.legs[1].player = <<"Drake Maye">>
        /\ slip.parsed.legs[1].stat = "passing yards"
        /\ slip.parsed.legs[1].side = "over"
        /\ slip.parsed.legs[1].line = 2255

\* C21: the transcript of a parlay header, "Cowboys -3.5" and "Over 44.5"
\* parses to a parlay of two legs, the spread of the Cowboys at -3.5 and
\* then the total over 44.5.
ParlaySlip ==
    join(<< <<"Parlay">>, <<"Cowboys", "-3.5">>, <<"Over", "44.5">> >>)

C21_HeaderDropsNoLeg ==
    (slip.done /\ text = ParlaySlip) =>
        /\ slip.parsed.bet_type = "parlay"
        /\ Len(slip.parsed.legs) = 2
        /\ slip.parsed.legs[1].type = "spread"
        /\ slip.parsed.legs[1].team = <<"Cowboys">>
        /\ slip.parsed.legs[1].line = 0 - 35
        /\ slip.parsed.legs[2].type = "total"
        /\ slip.parsed.legs[2].side = "over"
        /\ slip.parsed.legs[2].line = 445

\* C22: of the blocks the leg starts cut the transcript into, the ones
\* split_into_leg_blocks returns are, in their order, all but the blocks of
\* at most three words that are made up of chrome words alone.
MixedOrLong(b) ==
    \/ word_count(b) > MaxChromeWords
    \/ \E i \in 1..Len(b) : b[i] \notin ChromeWords \cup {NL}

C22_OnlyPureChromeDropped ==
    slip.done =>
        slip.blocks =
            SelectSeq(leg_blocks(SelectSeq(splitlines(text), IsLine), <<>>),
                      MixedOrLong)

\* C23: every leg has the one market kind its block's patterns give by the
\* priority prop, total, spread, moneyline, unknown, and an unknown leg
\* keeps at most the first 80 characters of its block.
KindByPriority(b) ==
    IF re_player_stat(b) # 0 THEN "prop"
    ELSE IF re_ou(b) # 0 \/ re_total_key(b) THEN "total"
    ELSE IF re_team_spread(b) # 0 THEN "spread"
    ELSE IF re_winner_key(b) THEN "moneyline"
    ELSE "unknown"

C23_KindByPriority ==
    slip.done =>
        /\ Len(slip.parsed.legs) = Len(slip.blocks)
        /\ \A i \in 1..Len(slip.blocks) :
            LET leg == slip.parsed.legs[i]
                b   == slip.blocks[i]
            IN  /\ leg.type = KindByPriority(b)
                /\ leg.type = "unknown" =>
                      /\ leg.target_chars <= MaxTargetText
                      /\ leg.target_chars = block_chars(b)
                            \/ block_chars(b) > MaxTargetText

\* A parsed slip whose first block holds a team with its spread and a
\* moneyline keyword and is a spread, and whose second block holds an over
\* with its line and a team with its spread and is a total.
C23_Witness ==
    /\ slip.done
    /\ Len(slip.blocks) = 2
    /\ re_team_spread(slip.blocks[1]) # 0
    /\ re_winner_key(slip.blocks[1])
    /\ slip.parsed.legs[1].type = "spread"
    /\ re_ou(slip.blocks[2]) # 0
    /\ re_team_spread(slip.blocks[2]) # 0
    /\ slip.parsed.legs[2].type = "total"

\* Every leg of the bet is a prop (none, for a bet without legs).
OnlyProps(bet, lg) == \A k \in 1..Len(bet.legs) : lg[bet.legs[k]].type = "prop"

\* The legs of the bets of the snapshot that have only prop legs.
SkippedLegs(snap, lg) ==
    { k \in 1..Len(lg) :
        \E i \in 1..Len(snap) :
            /\ OnlyProps(snap[i].bet, lg)
            /\ \E h \in 1..Len(snap[i].bet.legs) : snap[i].bet.legs[h] = k }

\* A step of the scores tick: it starts, or it resumes from an await.
ScoresStep == sc' # sc /\ sc'.pc # "cancelled"

\* C24: a scores tick skips a bet of which every leg is a prop: it never
\* waits for a scoreboard or for an edit of the message of such a bet, no
\* step of it changes a leg of such a bet, it saves only after the edit of
\* a bet that has another kind of leg, and a tick over bets that all have
\* only prop legs ends at once, with every bet visited, no leg changed and
\* nothing saved.
C24_ScoresSkipsAllProp ==
    [][ScoresStep =>
          LET snap == IF sc.pc = "idle" THEN tracked ELSE sc.snap
          IN  /\ sc'.pc \in {"fetch", "edit"} =>
                    ~OnlyProps(sc'.snap[sc'.i].bet, legs')
              /\ \A k \in SkippedLegs(snap, legs) : legs'[k] = legs[k]
              /\ store' # store =>
                    sc.pc = "edit" /\ ~OnlyProps(sc.snap[sc.i].bet, legs)
              /\ (sc.pc = "idle"
                  /\ \A i \in 1..Len(tracked) : OnlyProps(tracked[i].bet, legs))
                    => /\ sc'.pc = "idle"
                       /\ sc'.report.visited = Len(tracked)
                       /\ legs' = legs
                       /\ store' = store]_vars

\* A scores tick has run over two tracked bets of prop legs only, and ended
\* without an await.
C24_Witness ==
    /\ sc.pc = "idle"
    /\ sc.report.total = 2
    /\ sc.report.visited = 2
    /\ Len(tracked) = 2
    /\ \A i \in 1..Len(tracked) :
          /\ Len(tracked[i].bet.legs) > 0
          /\ OnlyProps(tracked[i].bet, legs)

\* The combined match score of the k-th event of the scoreboard for the
\* leg's pair of team names: the lower of the two names' match scores.
Combined(k) == EventScore(corr.game_teams, corr.events[k])

\* C25: find_game_id_for_teams returns an event's identifier only if the
\* event's combined match score is the highest of the scoreboard, at least
\* the minimum, and higher than that of every earlier event; with fewer
\* than two team names, no event, or no event that reaches the minimum it
\* returns nothing, and the leg is left without game_id and pending, to be
\* correlated again in the next cycle.
C25_BestEventOrNothing ==
    corr.cycles > 0 =>
        /\ corr.found # None =>
              /\ Len(corr.game_teams) >= 2
              /\ \E k \in 1..Len(corr.events) :
                    /\ corr.events[k].id = corr.found
                    /\ Combined(k) >= MinMatchScore
                    /\ \A j \in 1..Len(corr.events) : Combined(j) <= Combined(k)
                    /\ \A j \in 1..(k - 1) : Combined(j) < Combined(k)
        /\ (\/ Len(corr.game_teams) < 2
            \/ corr.events = <<>>
            \/ \A k \in 1..Len(corr.events) : Combined(k) < MinMatchScore)
              => /\ corr.found = None
                 /\ corr.game_id = corr.had
                 /\ corr.result = "pending"
        /\ (corr.cycles = MaxCycles /\ corr.had = None
            /\ Len(corr.game_teams) >= 2
            /\ \E k \in 1..Len(corr.events) : Combined(k) >= MinMatchScore)
              => corr.found # None

\* A leg that no event matched in the first cycle is correlated again in
\* the second, on a scoreboard where two events share the highest combined
\* score and a third scores lower: it gets the earlier of the two.
C25_Witness ==
    /\ corr.cycles = MaxCycles
    /\ corr.had = None
    /\ corr.result = "pending"
    /\ Len(corr.game_teams) = 2
    /\ Len(corr.events) = 3
    /\ \E k \in 2..3 :
          /\ Combined(k - 1) = Combined(k)
          /\ Combined(k) >= MinMatchScore
          /\ corr.found = corr.events[k - 1].id
          /\ corr.game_id = corr.found
          /\ \E j \in 1..3 : Combined(j) < Combined(k)

\* The transcript of the c-th candidate of the image read.
TextOf(c) ==
    IF scan.engine[c] = EngineError THEN <<>>
    ELSE SelectSeq(scan.engine[c], LAMBDA ch : ch \notin {FF, NL})

\* C26: ocr_image_multi returns the transcript of a candidate whose score
\* no candidate exceeds and, among the candidates of that score, whose
\* transcript none exceeds in length; a candidate whose engine call failed
\* is an empty transcript of score 0, and no failure of the engine makes
\* ocr_image_multi raise; if every candidate is empty, so is the result.
C26_BestCandidate ==
    scan.done =>
        /\ scan.raised => ~scan.decodable
        /\ ~scan.raised =>
              /\ Len(scan.candidates) = NumCandidates
              /\ \E c \in 1..NumCandidates :
                    /\ scan.text = TextOf(c)
                    /\ \A d \in 1..NumCandidates :
                          /\ scan.candidates[d].score <= scan.candidates[c].score
                          /\ scan.candidates[d].score = scan.candidates[c].score
                                => scan.candidates[d].length
                                     <= scan.candidates[c].length
              /\ \A c \in 1..NumCandidates :
                    /\ scan.candidates[c].length = Len(TextOf(c))
                    /\ scan.engine[c] = EngineError =>
                          scan.candidates[c] = [score |-> 0, length |-> 0]
              /\ (\A c \in 1..NumCandidates : TextOf(c) = <<>>)
                    => scan.text = <<>>

\* An image of which one candidate failed in the engine, two candidates
\* share the highest score with transcripts of different lengths, the
\* shorter one first, and the longer of the two was returned.
C26_Witness ==
    /\ scan.done
    /\ ~scan.raised
    /\ \E c \in 1..NumCandidates : scan.engine[c] = EngineError
    /\ \E c, d \in 1..NumCandidates :
          /\ c < d
          /\ scan.candidates[c].score = scan.candidates[d].score
          /\ scan.candidates[c].length < scan.candidates[d].length
          /\ \A e \in 1..NumCandidates :
                scan.candidates[e].score <= scan.candidates[d].score
          /\ scan.text = TextOf(d)
          /\ scan.text # TextOf(c)

C28_AddBetNeverOverwrites ==
    [][intakes' = intakes + 1 =>
          /\ manual_id(tracked) \notin Keys(tracked)
          /\ Len(tracked') = Len(tracked) + 1
          /\ \A i \in 1..Len(tracked) : tracked'[i] = tracked[i]]_vars

\* The identifiers of the events of a league's scoreboard.
LeagueIds(league) == { e.id : e \in LeagueFixtures(league) }

\* C29: a leg's game_id, once set, identifies an event of the scoreboard of
\* the leg's own league, the league the props tick looks the event up in
\* (the bet's league for a leg without one); no tick gives a leg of a
\* mixed-league parlay an identifier from another league's scoreboard.
C29_GameIdOfOwnLeague ==
    corr.game_id # None =>
        corr.game_id \in LeagueIds(leg_league(corr, [league |-> corr.bet_league]))

\* C30: a refresh in which the fetch for a league fails leaves the league's
\* team and player lists as they were, so a populated catalog is never
\* replaced by an empty one, and a refresh in which a fetch failed is not
\* recorded as the last refresh.
C30_FailedFetchKeepsCatalog ==
    [][/\ \A league \in CatalogLeagues :
            league \in cat'.failed \ cat.failed =>
                /\ cat'.TEAM_MAP[league] = cat.TEAM_MAP[league]
                /\ cat'.PLAYER_MAP[league] = cat.PLAYER_MAP[league]
       /\ (cat.pc = "gather" /\ cat'.pc = "idle" /\ cat.failed # {})
            => cat'.last = cat.last]_vars

====
